---- MODULE Spec2Model ----
(***************************************************************************)
(* Model of the CV-Analyzer application-decision pipeline:                 *)
(*   backend/main.py  pdf_loader, analyz_match, email_content, send_email, *)
(*                    process_application                                  *)
(*   backend/app.py   the "Analyze and Send Email" button handler and the  *)
(*                    session list st.session_state.application_data       *)
(*                                                                         *)
(* Text is modelled as a sequence of lexical tokens.  A token is either a  *)
(* single character (":", " ", "\n", "%", a decimal digit, the letter "x") *)
(* or one of the words the regular expressions of analyz_match look for.   *)
(* The regular expressions are evaluated on token sequences the way        *)
(* re.search evaluates them on characters: leftmost start, greedy and lazy *)
(* quantifiers, "." not crossing a newline, \b between a word character    *)
(* and a non-word character.                                               *)
(***************************************************************************)
EXTENDS Integers, Sequences, FiniteSets, TLC

(***************************************************************************)
(* Tokens                                                                  *)
(***************************************************************************)
Digits == {"0", "1", "2", "3", "4", "5", "6", "7", "8", "9"}

DigitVal(t) ==
    CASE t = "0" -> 0 [] t = "1" -> 1 [] t = "2" -> 2 [] t = "3" -> 3
      [] t = "4" -> 4 [] t = "5" -> 5 [] t = "6" -> 6 [] t = "7" -> 7
      [] t = "8" -> 8 [] t = "9" -> 9

\* "Match Percentage" in the exact case of the primary pattern, the same
\* label in another case, and the bare word "match" (any case).
LabelExact  == {"Match Percentage"}
LabelAnyCase == {"Match Percentage", "match percentage"}
MatchWords  == {"Match Percentage", "match percentage", "match"}

\* "Recommendation" in any case (every recommendation pattern is searched
\* with re.IGNORECASE).
RecLabels   == {"Recommendation", "recommendation"}
AcceptWords == {"ACCEPT", "Accept", "accept"}
RejectWords == {"REJECT", "Reject", "reject"}

\* \s : whitespace; "." : anything but a newline; \w : word characters.
IsSpace(t)   == t \in {" ", "\n"}
IsDot(t)     == t # "\n"
IsDigit(t)   == t \in Digits
IsNonWord(t) == t \in {":", " ", "\n", "%"}

\* str.upper() on the captured group.
Upper(t) ==
    CASE t \in AcceptWords -> "ACCEPT"
      [] t \in RejectWords -> "REJECT"
      [] OTHER -> t

(***************************************************************************)
(* Regular-expression pieces, evaluated left to right as re does.          *)
(* An optional result is <<>> (None) or <<v>>.                             *)
(***************************************************************************)
\* ":?"  greedy optional colon at position i; returns the next position.
OptColon(text, i) ==
    IF i <= Len(text) /\ text[i] = ":" THEN i + 1 ELSE i

\* "\s*"  greedy whitespace run starting at i; returns the next position.
RECURSIVE SkipSpaces(_, _)
SkipSpaces(text, i) ==
    IF i <= Len(text) /\ IsSpace(text[i]) THEN SkipSpaces(text, i + 1) ELSE i

\* "\d+"  greedy digit run starting at i; returns the position after it
\* (i itself when there is no digit at i).
RECURSIVE DigitsEnd(_, _)
DigitsEnd(text, i) ==
    IF i <= Len(text) /\ IsDigit(text[i]) THEN DigitsEnd(text, i + 1) ELSE i

\* int(match.group(1)) for the digit run text[i..j-1].
RECURSIVE IntOf(_, _, _)
IntOf(text, i, j) ==
    IF j <= i THEN 0
    ELSE 10 * IntOf(text, i, j - 1) + DigitVal(text[j - 1])

\* ".*?(\d+)" from position i: the lazy dot advances one non-newline
\* character at a time until a digit run starts; with needPercent the run
\* must be followed by "%" (a shorter run cannot be: it is followed by a
\* digit), otherwise the dot advances further.
RECURSIVE LazyDotDigits(_, _, _)
LazyDotDigits(text, i, needPercent) ==
    IF i > Len(text) THEN <<>>
    ELSE LET j == DigitsEnd(text, i) IN
         IF j > i /\ (~needPercent \/ (j <= Len(text) /\ text[j] = "%"))
         THEN <<IntOf(text, i, j)>>
         ELSE IF IsDot(text[i]) THEN LazyDotDigits(text, i + 1, needPercent)
              ELSE <<>>

\* r'Match Percentage:?\s*(\d+)' anchored at i (labels: the accepted
\* spellings of the label, one for the case-sensitive search).
PrimaryAt(text, i, labels, needPercent) ==
    IF text[i] \notin labels THEN <<>>
    ELSE LET k == SkipSpaces(text, OptColon(text, i + 1))
             j == DigitsEnd(text, k)
         IN IF j > k /\ (~needPercent \/ (j <= Len(text) /\ text[j] = "%"))
            THEN <<IntOf(text, k, j)>> ELSE <<>>

\* r'Match Percentage.*?(\d+)' and r'match.*?(\d+)%' anchored at i.
LooseAt(text, i, labels, needPercent) ==
    IF text[i] \notin labels THEN <<>>
    ELSE LazyDotDigits(text, i + 1, needPercent)

\* re.search: the match at the leftmost start position.
RECURSIVE SearchPrimary(_, _, _, _)
SearchPrimary(text, i, labels, needPercent) ==
    IF i > Len(text) THEN <<>>
    ELSE LET m == PrimaryAt(text, i, labels, needPercent) IN
         IF m # <<>> THEN m ELSE SearchPrimary(text, i + 1, labels, needPercent)

RECURSIVE SearchLoose(_, _, _, _)
SearchLoose(text, i, labels, needPercent) ==
    IF i > Len(text) THEN <<>>
    ELSE LET m == LooseAt(text, i, labels, needPercent) IN
         IF m # <<>> THEN m ELSE SearchLoose(text, i + 1, labels, needPercent)

\* The four percentage patterns, numbered in the order they are tried.
PctPattern(n, text) ==
    CASE n = 0 -> SearchPrimary(text, 1, LabelExact, FALSE)
      [] n = 1 -> SearchPrimary(text, 1, LabelAnyCase, TRUE)
      [] n = 2 -> SearchLoose(text, 1, LabelAnyCase, FALSE)
      [] n = 3 -> SearchLoose(text, 1, MatchWords, TRUE)

\* The for loop over alt_patterns with its break.
RECURSIVE AltPatterns(_, _)
AltPatterns(n, text) ==
    IF n > 3 THEN 0
    ELSE LET m == PctPattern(n, text) IN
         IF m # <<>> THEN m[1] ELSE AltPatterns(n + 1, text)

\* Mutant: the loop over alt_patterns without its break, so that the last
\* matching fallback wins.
ParsePercentageNoBreak(text) ==
    LET match == PctPattern(0, text) IN
    IF match # << >> THEN match[1]
    ELSE IF PctPattern(3, text) # << >> THEN PctPattern(3, text)[1]
    ELSE IF PctPattern(2, text) # << >> THEN PctPattern(2, text)[1]
    ELSE IF PctPattern(1, text) # << >> THEN PctPattern(1, text)[1]
    ELSE 0

ParsePercentage(text) ==
    LET match == PctPattern(0, text) IN
    IF match # <<>> THEN match[1] ELSE AltPatterns(1, text)

(***************************************************************************)
(* Recommendation patterns (all searched with re.IGNORECASE).              *)
(***************************************************************************)
IsDecisionWord(t) == t \in AcceptWords \cup RejectWords

\* ".*?(ACCEPT|REJECT)" from position i.
RECURSIVE LazyDotWord(_, _)
LazyDotWord(text, i) ==
    IF i > Len(text) THEN <<>>
    ELSE IF IsDecisionWord(text[i]) THEN <<text[i]>>
         ELSE IF IsDot(text[i]) THEN LazyDotWord(text, i + 1)
              ELSE <<>>

\* r'Recommendation:?\s*(ACCEPT|REJECT)' anchored at i.
RecStrictAt(text, i) ==
    IF text[i] \notin RecLabels THEN <<>>
    ELSE LET k == SkipSpaces(text, OptColon(text, i + 1)) IN
         IF k <= Len(text) /\ IsDecisionWord(text[k]) THEN <<text[k]>> ELSE <<>>

\* r'Recommendation.*?(ACCEPT|REJECT)' anchored at i.
RecLooseAt(text, i) ==
    IF text[i] \notin RecLabels THEN <<>>
    ELSE LazyDotWord(text, i + 1)

RECURSIVE SearchRecStrict(_, _)
SearchRecStrict(text, i) ==
    IF i > Len(text) THEN <<>>
    ELSE LET m == RecStrictAt(text, i) IN
         IF m # <<>> THEN m ELSE SearchRecStrict(text, i + 1)

RECURSIVE SearchRecLoose(_, _)
SearchRecLoose(text, i) ==
    IF i > Len(text) THEN <<>>
    ELSE LET m == RecLooseAt(text, i) IN
         IF m # <<>> THEN m ELSE SearchRecLoose(text, i + 1)

\* recommendation_patterns, numbered in list order.  Under IGNORECASE the
\* upper-case and capitalised spellings of a pattern accept the same text.
RecPattern(n, text) ==
    CASE n = 0 -> SearchRecStrict(text, 1)
      [] n = 1 -> SearchRecStrict(text, 1)
      [] n = 2 -> SearchRecLoose(text, 1)
      [] n = 3 -> SearchRecLoose(text, 1)

\* The for loop over recommendation_patterns with its break; <<>> is None.
RECURSIVE RecPatterns(_, _)
RecPatterns(n, text) ==
    IF n > 3 THEN <<>>
    ELSE LET m == RecPattern(n, text) IN
         IF m # <<>> THEN <<Upper(m[1])>> ELSE RecPatterns(n + 1, text)

\* Mutant: the fallback search without its word boundaries.
HasAcceptSubstring(text) ==
    \E i \in 1..Len(text) : text[i] \in AcceptWords

\* re.search(r'\baccept\b', text, re.IGNORECASE)
HasStandaloneAccept(text) ==
    \E i \in 1..Len(text) :
        /\ text[i] \in AcceptWords
        /\ (i = 1 \/ IsNonWord(text[i - 1]))
        /\ (i = Len(text) \/ IsNonWord(text[i + 1]))

ParseRecommendation(text) ==
    LET recommendation == RecPatterns(0, text) IN
    IF recommendation # <<>> THEN recommendation[1]
    ELSE IF HasStandaloneAccept(text) THEN "ACCEPT" ELSE "REJECT"

(***************************************************************************)
(* Pure helpers of the pipeline                                            *)
(***************************************************************************)
\* Mutant: both signals required.
DecisionPolicyAnd(mp, threshold, rec) ==
    (mp >= threshold /\ rec = "ACCEPT")

\* main.py line 212: the decision policy.
DecisionPolicy(mp, threshold, rec) ==
    (mp >= threshold \/ rec = "ACCEPT")

\* email_content: the two templates, interpolating name and title.
EmailContent(name, title, isMatch) ==
    IF isMatch
    THEN [subject |-> <<"Congratulations! Your Application for ", title>>,
          body    |-> <<"Dear ", name, "strong match", title, "MCQ">>]
    ELSE [subject |-> <<"Regarding your application for ", title>>,
          body    |-> <<"Dear ", name, "regret", title>>]

\* all([cv_file, job_description, applicant_email]) in app.py line 62.
RequiredFieldsFilled(f) ==
    f.cv_file # "" /\ f.job_description # "" /\ f.applicant_email # ""

\* Mutant: one credential is enough to log in.
CredentialsConfiguredEither(sender, password) ==
    sender # "" \/ password # ""

\* "if EMAIL_SENDER and EMAIL_PASSWORD" in send_email.
CredentialsConfigured(sender, password) ==
    sender # "" /\ password # ""

\* The failure dictionary of process_application (lines 205-208).
FailureResult ==
    [success |-> FALSE, message |-> "Failed to analyze the CV."]

\* The record process_application returns (lines 221-230).
SuccessResult(name, title, mp, isMatch, sent, msg, analysis) ==
    [success          |-> TRUE,
     applicant_name   |-> name,
     job_title        |-> title,
     match_percentage |-> mp,
     recommendation   |-> IF isMatch THEN "Accept" ELSE "Reject",
     email_sent       |-> sent,
     email_message    |-> msg,
     analysis         |-> analysis]

(***************************************************************************)
(* Bounds and input sets                                                   *)
(***************************************************************************)
\* Button presses explored in one session.
MaxSubmissions == 2

\* The slider of app.py: range 50..95, default 70 (also the default of
\* process_application).
SliderMin == 50
SliderMax == 95
DefaultThreshold == 70
Thresholds == {SliderMin, DefaultThreshold, SliderMax}

PctLine(d1, d2) == <<"Match Percentage", ":", " ", d1, d2, "\n">>
RecLine(w)      == <<"Recommendation", ":", " ", w>>

\* Model responses the pipeline is run on: well-formed ones around the
\* default threshold, the empty response, unparsable prose, and prose that
\* only the fallbacks understand.
Responses ==
    {PctLine(d[1], d[2]) \o RecLine(w) :
        d \in {<<"6", "5">>, <<"7", "5">>}, w \in {"ACCEPT", "REJECT"}}
    \cup {<< >>,
          <<"match", " ", "x", " ", "8", "2", "%">>,
          <<"x", " ", "accept", " ", "x">>}

Forms ==
    [cv_file         : {"", "cv.pdf", "broken.pdf"},
     applicant_name  : {"Ann"},
     applicant_email : {"", "ann@example.org"},
     job_title       : {"Engineer"},
     job_description : {"", "Python, SQL"},
     match_threshold : Thresholds]

NoForm ==
    [cv_file |-> "", applicant_name |-> "", applicant_email |-> "",
     job_title |-> "", job_description |-> "", match_threshold |-> DefaultThreshold]

NoEmail == [subject |-> << >>, body |-> << >>]

StageOrder ==
    <<"Extracting", "Evaluating", "Deciding", "Composing", "Notifying", "Done">>

(***************************************************************************)
(* State                                                                   *)
(***************************************************************************)
VARIABLES
    EMAIL_SENDER, EMAIL_PASSWORD,   \* module-level configuration of main.py
    application_data,               \* st.session_state.application_data
    pc,                             \* position of the button handler
    form,                           \* arguments of the running call
    cv_text, response_text,         \* locals of process_application and
    analysis_text, match_percentage, \* analyz_match
    recommendation, is_match, email,
    email_success, email_message,
    result,                         \* << >> or <<returned dictionary>>
    outcome,                        \* how the last button press ended
    temp_dirs,                      \* temporary directories on disk
    smtp_pc, smtp_log, transmitted, \* the SMTP session of send_email
    stages, llm_calls, failed_stage, \* history of the running submission
    submissions, success_returns    \* session counters

config  == <<EMAIL_SENDER, EMAIL_PASSWORD>>
locals  == <<cv_text, response_text, analysis_text, match_percentage,
             recommendation, is_match, email, email_success, email_message>>
smtp    == <<smtp_pc, smtp_log, transmitted>>
history == <<stages, llm_calls, failed_stage>>
vars    == <<config, application_data, pc, form, locals, result, outcome,
             temp_dirs, smtp, history, submissions, success_returns>>

InitLocals ==
    /\ cv_text = ""
    /\ response_text = << >>
    /\ analysis_text = << >>
    /\ match_percentage = 0
    /\ recommendation = ""
    /\ is_match = FALSE
    /\ email = NoEmail
    /\ email_success = FALSE
    /\ email_message = << >>

\* app.py lines 39-41 and the os.getenv calls of main.py lines 19-20.
Init ==
    /\ EMAIL_SENDER \in {"", "hr@example.org"}
    /\ EMAIL_PASSWORD \in {"", "secret"}
    /\ application_data = << >>
    /\ pc = "idle"
    /\ form = NoForm
    /\ InitLocals
    /\ result = << >>
    /\ outcome = "none"
    /\ temp_dirs = 0
    /\ smtp_pc = "none"
    /\ smtp_log = << >>
    /\ transmitted = 0
    /\ stages = << >>
    /\ llm_calls = 0
    /\ failed_stage = "none"
    /\ submissions = 0
    /\ success_returns = 0

(***************************************************************************)
(* The button handler of app.py and process_application                    *)
(***************************************************************************)
\* The locals of process_application, analyz_match and send_email before
\* they are assigned, and after the call is over.
ResetLocals ==
    /\ cv_text' = ""
    /\ response_text' = << >>
    /\ analysis_text' = << >>
    /\ match_percentage' = 0
    /\ recommendation' = ""
    /\ is_match' = FALSE
    /\ email' = NoEmail
    /\ email_success' = FALSE
    /\ email_message' = << >>

\* The script run is over: the handler's frame and the SMTP session are gone.
EndOfRun ==
    /\ pc' = "idle"
    /\ form' = NoForm
    /\ ResetLocals
    /\ smtp_pc' = "none" /\ smtp_log' = << >> /\ transmitted' = 0
    /\ stages' = << >>
    /\ llm_calls' = 0

\* An exception leaves process_application and the button handler: nothing
\* is returned, nothing is appended and the script run ends.
Raise(stage) ==
    /\ EndOfRun
    /\ outcome' = "raised"
    /\ failed_stage' = stage
    /\ UNCHANGED <<result, application_data, success_returns>>

\* Entering the next stage of process_application.
Enter(stage) ==
    stages' = Append(stages, stage)

\* app.py lines 61-69: the press of "Analyze and Send Email" with the
\* widget values f, up to the call of process_application.
ButtonPress(f) ==
    /\ pc = "idle"
    /\ submissions < MaxSubmissions
    /\ submissions' = submissions + 1
    /\ ResetLocals
    /\ result' = << >>
    /\ smtp_pc' = "none" /\ smtp_log' = << >> /\ transmitted' = 0
    /\ llm_calls' = 0 /\ failed_stage' = "none"
    /\ IF RequiredFieldsFilled(f)
       THEN /\ pc' = "Extracting"
            /\ form' = f
            /\ stages' = <<"Extracting">>
            /\ outcome' = "running"
       ELSE /\ pc' = "idle"
            /\ form' = NoForm
            /\ stages' = << >>
            /\ outcome' = "field_error"
    /\ UNCHANGED <<config, application_data, temp_dirs, success_returns>>

\* pdf_loader: a temporary directory is created, the upload is written and
\* read back; temp_dir.cleanup() runs only on the path that reaches line 35.
\* A document PdfReader or extract_text rejects ("broken.pdf") raises out of
\* the function with the directory still on disk.  PdfReader opens the path
\* while the file object that wrote it is still open, so an upload small
\* enough to sit in the write buffer is read as an empty file and rejected
\* as well.
PdfLoader ==
    /\ pc = "Extracting"
    /\ IF form.cv_file = "cv.pdf"
       THEN /\ cv_text' = "Python, SQL, 5 years experience"
            /\ temp_dirs' = (temp_dirs + 1) - 1
            /\ pc' = "Evaluating"
            /\ Enter("Evaluating")
            /\ UNCHANGED <<form, response_text, analysis_text, match_percentage,
                           recommendation, is_match, email, email_success,
                           email_message, result, outcome, smtp, llm_calls,
                           failed_stage, application_data, success_returns>>
       ELSE /\ temp_dirs' = temp_dirs + 1
            /\ Raise("Extracting")
    /\ UNCHANGED <<config, submissions>>

\* The finalizer tempfile.TemporaryDirectory registers for its object: a
\* directory whose cleanup() was never called is removed when the object is
\* collected, at a time the program does not control.
TempDirFinalizer ==
    /\ temp_dirs > 0
    /\ temp_dirs' = temp_dirs - 1
    /\ UNCHANGED <<config, application_data, pc, form, locals, result, outcome,
                   smtp, history, submissions, success_returns>>

\* analyz_match lines 62-74: the single chain.invoke call.  It returns a
\* response or raises (network or authentication failure).
InvokeModel ==
    /\ pc = "Evaluating"
    /\ \/ \E r \in Responses :
            /\ response_text' = r
            /\ llm_calls' = llm_calls + 1
            /\ pc' = "Parsing"
            /\ UNCHANGED <<form, cv_text, analysis_text, match_percentage,
                           recommendation, is_match, email, email_success,
                           email_message, result, outcome, smtp, stages,
                           failed_stage, application_data, success_returns>>
       \/ Raise("Evaluating")
    /\ UNCHANGED <<config, temp_dirs, submissions>>

\* analyz_match lines 76-131: parsing of the response and the returned
\* triple, unpacked at line 202.
ParseResponse ==
    /\ pc = "Parsing"
    /\ analysis_text' = response_text
    /\ match_percentage' = ParsePercentage(response_text)
    /\ recommendation' = ParseRecommendation(response_text)
    /\ pc' = "Checking"
    /\ UNCHANGED <<config, application_data, form, cv_text, response_text, is_match,
                   email, email_success, email_message, result, outcome, temp_dirs,
                   smtp, history, submissions, success_returns>>

\* Mutant: an empty response makes the model be asked again.
CheckAnalysisRetries ==
    /\ pc = "Checking"
    /\ IF analysis_text = << >>
       THEN /\ pc' = "Evaluating"
            /\ Enter("Evaluating")
       ELSE /\ pc' = "Deciding"
            /\ Enter("Deciding")
    /\ UNCHANGED <<config, application_data, form, locals, result, outcome, temp_dirs,
                   smtp, llm_calls, failed_stage, submissions, success_returns>>

\* Mutant: the emptiness test is missing.
CheckAnalysisMissing ==
    /\ pc = "Checking"
    /\ pc' = "Deciding"
    /\ Enter("Deciding")
    /\ UNCHANGED <<config, application_data, form, locals, result, outcome, temp_dirs,
                   smtp, llm_calls, failed_stage, submissions, success_returns>>

\* process_application lines 204-208: "if not analysis_text" returns the
\* failure dictionary.
CheckAnalysis ==
    /\ pc = "Checking"
    /\ IF analysis_text = << >>
       THEN /\ result' = <<FailureResult>>
            /\ pc' = "Handling"
            /\ UNCHANGED stages
       ELSE /\ pc' = "Deciding"
            /\ Enter("Deciding")
            /\ UNCHANGED result
    /\ UNCHANGED <<config, application_data, form, locals, outcome, temp_dirs,
                   smtp, llm_calls, failed_stage, submissions, success_returns>>

\* process_application line 212.
Decide ==
    /\ pc = "Deciding"
    /\ is_match' = DecisionPolicy(match_percentage, form.match_threshold, recommendation)
    /\ pc' = "Composing"
    /\ Enter("Composing")
    /\ UNCHANGED <<config, application_data, form, cv_text, response_text,
                   analysis_text, match_percentage, recommendation, email,
                   email_success, email_message, result, outcome, temp_dirs,
                   smtp, llm_calls, failed_stage, submissions, success_returns>>

\* process_application line 215, then the call of send_email at line 218.
Compose ==
    /\ pc = "Composing"
    /\ email' = EmailContent(form.applicant_name, form.job_title, is_match)
    /\ pc' = "Notifying"
    /\ Enter("Notifying")
    /\ smtp_pc' = "connect"
    /\ UNCHANGED <<config, application_data, form, cv_text, response_text,
                   analysis_text, match_percentage, recommendation, is_match,
                   email_success, email_message, result, outcome, temp_dirs,
                   smtp_log, transmitted, llm_calls, failed_stage, submissions,
                   success_returns>>

(***************************************************************************)
(* send_email: one SMTP session inside try/except                          *)
(***************************************************************************)
\* Mutant: send_email without its try/except.
SendEmailFailureRaises(step) ==
    Raise("Notifying")

\* "except Exception as e: return False, f'Failed to send email: {str(e)}'".
\* The with statement closes the connection on the way out.
SendEmailFailure(step) ==
    /\ email_success' = FALSE
    /\ email_message' = <<"Failed to send email: ", "error text">>
    /\ smtp_pc' = "failed"
    /\ smtp_log' = Append(smtp_log, step)
    /\ pc' = "Returning"
    /\ UNCHANGED <<form, cv_text, response_text, analysis_text, match_percentage,
                   recommendation, is_match, email, transmitted, stages, llm_calls,
                   result, outcome, failed_stage, application_data, success_returns>>

\* One step of the SMTP dialogue: it is attempted (and logged), then either
\* succeeds and the session moves on, or raises into the except clause.
SmtpStep(at, step, next) ==
    /\ pc = "Notifying"
    /\ smtp_pc = at
    /\ \/ /\ smtp_pc' = next
          /\ smtp_log' = Append(smtp_log, step)
          /\ transmitted' = IF step = "send_message" THEN transmitted + 1
                            ELSE transmitted
          /\ UNCHANGED <<pc, form, cv_text, response_text, analysis_text,
                         match_percentage, recommendation, is_match, email,
                         email_success, email_message, stages, llm_calls,
                         result, outcome, failed_stage, application_data,
                         success_returns>>
       \/ SendEmailFailure(step)
    /\ UNCHANGED <<config, temp_dirs, submissions>>

\* smtplib.SMTP(SMTP_SERVER, SMTP_PORT) at line 181.
SmtpConnect == SmtpStep("connect", "connect", "ehlo1")

\* server.ehlo() at line 182.
SmtpEhlo == SmtpStep("ehlo1", "ehlo", "starttls")

\* server.starttls() at line 183.
SmtpStartTls == SmtpStep("starttls", "starttls", "ehlo2")

\* Line 187: which step follows the second EHLO.
AfterSecondEhlo ==
    IF CredentialsConfigured(EMAIL_SENDER, EMAIL_PASSWORD) THEN "login" ELSE "send"

\* server.ehlo() at line 184, then the test of line 187.
SmtpEhloAgain == SmtpStep("ehlo2", "ehlo", AfterSecondEhlo)

\* server.login(EMAIL_SENDER, EMAIL_PASSWORD) at line 188.
SmtpLogin == SmtpStep("login", "login", "send")

\* server.send_message(message) at line 190: the message is transmitted
\* when the call succeeds.
SmtpSendMessage == SmtpStep("send", "send_message", "quit")

\* Leaving the with block (QUIT), then "return True, 'Email sent
\* successfully!'" at line 192.  A server that answers QUIT with an error
\* makes the block raise after the message went out.
SmtpQuit ==
    /\ pc = "Notifying"
    /\ smtp_pc = "quit"
    /\ \/ /\ email_success' = TRUE
          /\ email_message' = <<"Email sent successfully!">>
          /\ smtp_pc' = "closed"
          /\ smtp_log' = Append(smtp_log, "quit")
          /\ pc' = "Returning"
          /\ UNCHANGED <<form, cv_text, response_text, analysis_text,
                         match_percentage, recommendation, is_match, email,
                         transmitted, stages, llm_calls, result, outcome,
                         failed_stage, application_data, success_returns>>
       \/ SendEmailFailure("quit")
    /\ UNCHANGED <<config, temp_dirs, submissions>>

(***************************************************************************)
(* The end of process_application and of the button handler                *)
(***************************************************************************)
\* process_application lines 221-230.
ReturnRecord ==
    /\ pc = "Returning"
    /\ result' = <<SuccessResult(form.applicant_name, form.job_title,
                                 match_percentage, is_match, email_success,
                                 email_message, analysis_text)>>
    /\ success_returns' = success_returns + 1
    /\ pc' = "Handling"
    /\ Enter("Done")
    /\ UNCHANGED <<config, application_data, form, locals, outcome, temp_dirs,
                   smtp, llm_calls, failed_stage, submissions>>

\* Mutant: the handler appends whatever comes back.
SessionAppendAlways(data, res) ==
    Append(data, res)

\* app.py lines 70-71: "if result['success']: application_data.append(result)".
SessionAppend(data, res) ==
    IF res.success THEN Append(data, res) ELSE data

\* app.py lines 70-102: the handler's use of the returned dictionary; the
\* script run then ends.
HandleResult ==
    /\ pc = "Handling"
    /\ application_data' = SessionAppend(application_data, result[1])
    /\ EndOfRun
    /\ outcome' = "returned"
    /\ UNCHANGED <<config, result, temp_dirs, failed_stage, submissions,
                   success_returns>>

Next ==
    \/ \E f \in Forms : ButtonPress(f)
    \/ PdfLoader
    \/ TempDirFinalizer
    \/ InvokeModel
    \/ ParseResponse
    \/ CheckAnalysis
    \/ Decide
    \/ Compose
    \/ SmtpConnect
    \/ SmtpEhlo
    \/ SmtpStartTls
    \/ SmtpEhloAgain
    \/ SmtpLogin
    \/ SmtpSendMessage
    \/ SmtpQuit
    \/ ReturnRecord
    \/ HandleResult

Spec == Init /\ [][Next]_vars

(***************************************************************************)
(* Specifications for the parser of analyz_match alone: the call is at     *)
(* line 76 with an arbitrary bounded response in hand.                     *)
(***************************************************************************)
\* Longest response, in tokens, given to the percentage patterns and to the
\* recommendation patterns.
MaxPctLen == 5
MaxRecLen == 5

PctAlphabet ==
    {"Match Percentage", "match percentage", "match", ":", " ", "\n", "%",
     "8", "2"}
RecAlphabet ==
    {"Recommendation", "ACCEPT", "accept", "Reject", ":", " ", "\n", "x"}

Texts(alphabet, n) == UNION {[1..k -> alphabet] : k \in 0..n}

\* The state of a submission whose model call has just returned text.
InitParsing(text) ==
    /\ EMAIL_SENDER = ""
    /\ EMAIL_PASSWORD = ""
    /\ application_data = << >>
    /\ pc = "Parsing"
    /\ form = [cv_file |-> "cv.pdf", applicant_name |-> "Ann",
               applicant_email |-> "ann@example.org", job_title |-> "Engineer",
               job_description |-> "Python, SQL", match_threshold |-> DefaultThreshold]
    /\ cv_text = "Python, SQL, 5 years experience"
    /\ response_text = text
    /\ analysis_text = << >>
    /\ match_percentage = 0
    /\ recommendation = ""
    /\ is_match = FALSE
    /\ email = NoEmail
    /\ email_success = FALSE
    /\ email_message = << >>
    /\ result = << >>
    /\ outcome = "running"
    /\ temp_dirs = 0
    /\ smtp_pc = "none"
    /\ smtp_log = << >>
    /\ transmitted = 0
    /\ stages = <<"Extracting", "Evaluating">>
    /\ llm_calls = 1
    /\ failed_stage = "none"
    /\ submissions = 1
    /\ success_returns = 0

InitPct == \E text \in Texts(PctAlphabet, MaxPctLen) \cup Responses : InitParsing(text)
InitRec == \E text \in Texts(RecAlphabet, MaxRecLen) \cup Responses : InitParsing(text)

NextParse == ParseResponse

SpecPct == InitPct /\ [][NextParse]_vars
SpecRec == InitRec /\ [][NextParse]_vars

(***************************************************************************)
(* What the patterns denote, stated over positions of the text             *)
(***************************************************************************)
RECURSIVE Pow10(_)
Pow10(n) == IF n = 0 THEN 1 ELSE 10 * Pow10(n - 1)

\* The number a sequence of decimal digits writes.
RECURSIVE Decimal(_)
Decimal(ds) ==
    IF ds = << >> THEN 0
    ELSE DigitVal(Head(ds)) * Pow10(Len(ds) - 1) + Decimal(Tail(ds))

\* text[k..j-1] is a run of digits that cannot be extended to the right.
DigitRun(text, k, j) ==
    /\ k < j
    /\ \A p \in k..(j - 1) : text[p] \in Digits
    /\ (j = Len(text) + 1 \/ text[j] \notin Digits)

\* Between the label at i and position k there is an optional colon and
\* then only whitespace.
TightGap(text, i, k) ==
    \E c \in {i + 1, i + 2} :
        /\ c <= k
        /\ (c = i + 2 => text[i + 1] = ":")
        /\ \A p \in c..(k - 1) : text[p] \in {" ", "\n"}

\* Between the label at i and position k there is no line break.
SameLine(text, i, k) ==
    \A p \in (i + 1)..(k - 1) : text[p] # "\n"

\* Occurrences <<i, k, j>> of "label, gap, number": label at i, digits at
\* k..j-1, followed by "%" when pct.
Occurrences(text, labels, tight, pct) ==
    LET n == Len(text) IN
    UNION {UNION {{<<i, k, j>> :
                      j \in {e \in (k + 1)..(n + 1) :
                                /\ DigitRun(text, k, e)
                                /\ (pct => (e <= n /\ text[e] = "%"))}} :
                  k \in {b \in (i + 1)..n :
                            IF tight THEN TightGap(text, i, b)
                            ELSE SameLine(text, i, b)}} :
           i \in {a \in 1..n : text[a] \in labels}}

\* The occurrence a search reports: leftmost label, then nearest number.
First(occ) ==
    CHOOSE o \in occ :
        \A q \in occ : o[1] < q[1] \/ (o[1] = q[1] /\ o[2] <= q[2])

NumberOf(text, o) == Decimal(SubSeq(text, o[2], o[3] - 1))

PctOccurrences(n, text) ==
    CASE n = 0 -> Occurrences(text, {"Match Percentage"}, TRUE, FALSE)
      [] n = 1 -> Occurrences(text, {"Match Percentage", "match percentage"}, TRUE, TRUE)
      [] n = 2 -> Occurrences(text, {"Match Percentage", "match percentage"}, FALSE, FALSE)
      [] n = 3 -> Occurrences(text, {"Match Percentage", "match percentage", "match"},
                              FALSE, TRUE)

\* The percentage the claim prescribes for a response.
PrescribedPercentage(text) ==
    IF \A n \in 0..3 : PctOccurrences(n, text) = {} THEN 0
    ELSE LET n == CHOOSE m \in 0..3 :
                    /\ PctOccurrences(m, text) # {}
                    /\ \A l \in 0..(m - 1) : PctOccurrences(l, text) = {}
         IN NumberOf(text, First(PctOccurrences(n, text)))

Parsed == pc = "Checking"

\* C6: analyz_match's match_percentage is the integer captured by the first
\* of the four percentage patterns that matches the response, the primary
\* label pattern first and each fallback only when all earlier ones fail,
\* and 0 when none matches; "Match Percentage: 82" gives 82, "match score
\* around 82%" gives 82, a response without digits gives 0.
C6_FirstMatchingPattern ==
    Parsed =>
        /\ match_percentage = PrescribedPercentage(response_text)
        /\ (response_text = <<"Match Percentage", ":", " ", "8", "2">>
                => match_percentage = 82)
        /\ (response_text = <<"match", " ", "8", "2", "%">> => match_percentage = 82)
        /\ ((\A p \in 1..Len(response_text) : response_text[p] \notin Digits)
                => match_percentage = 0)

\* C6 witness: a response only the last fallback understands has been parsed.
C6_Witness ==
    /\ Parsed
    /\ response_text = <<"match", " ", "8", "2", "%">>
    /\ PctOccurrences(0, response_text) = {}
    /\ PctOccurrences(2, response_text) = {}
    /\ match_percentage = 82

\* Occurrences <<i, k>> of "Recommendation, gap, ACCEPT or REJECT" in any
\* letter case: label at i, the word at k.
RecOccurrences(text, tight) ==
    LET n == Len(text) IN
    UNION {{<<i, k>> :
               k \in {b \in (i + 1)..n :
                         /\ text[b] \in {"ACCEPT", "Accept", "accept",
                                         "REJECT", "Reject", "reject"}
                         /\ IF tight THEN TightGap(text, i, b)
                            ELSE SameLine(text, i, b)}} :
           i \in {a \in 1..n : text[a] \in {"Recommendation", "recommendation"}}}

\* The word "accept", in any letter case, between two word boundaries.
StandaloneAccept(text) ==
    \E i \in 1..Len(text) :
        /\ text[i] \in {"ACCEPT", "Accept", "accept"}
        /\ (i > 1 => text[i - 1] \in {":", " ", "\n", "%"})
        /\ (i < Len(text) => text[i + 1] \in {":", " ", "\n", "%"})

InUpperCase(word) ==
    IF word \in {"ACCEPT", "Accept", "accept"} THEN "ACCEPT" ELSE "REJECT"

\* The recommendation the claim prescribes for a response.
PrescribedRecommendation(text) ==
    IF RecOccurrences(text, TRUE) # {}
    THEN InUpperCase(text[First(RecOccurrences(text, TRUE))[2]])
    ELSE IF RecOccurrences(text, FALSE) # {}
    THEN InUpperCase(text[First(RecOccurrences(text, FALSE))[2]])
    ELSE IF StandaloneAccept(text) THEN "ACCEPT" ELSE "REJECT"

IsPrefix(s, t) == Len(s) <= Len(t) /\ s = SubSeq(t, 1, Len(s))

Occurs(x, seq) == \E p \in 1..Len(seq) : seq[p] = x

\* process_application has returned a dictionary the handler has not used yet.
Returned == pc = "Handling"

ReturnedRecord == Returned /\ result[1].success

\* C1: the record process_application returns has recommendation "Accept"
\* exactly when match_percentage >= match_threshold or the evaluator said
\* ACCEPT, and "Reject" otherwise: (65,70,REJECT) gives Reject,
\* (65,70,ACCEPT) gives Accept, (75,70,REJECT) gives Accept.
C1_AcceptIffThresholdOrEvaluator ==
    ReturnedRecord =>
        LET r  == result[1]
            th == form.match_threshold
        IN /\ r.recommendation \in {"Accept", "Reject"}
           /\ (r.recommendation = "Accept"
                 <=> (r.match_percentage >= th \/ recommendation = "ACCEPT"))
           /\ ((r.match_percentage = 65 /\ th = 70 /\ recommendation = "REJECT")
                 => r.recommendation = "Reject")
           /\ ((r.match_percentage = 65 /\ th = 70 /\ recommendation = "ACCEPT")
                 => r.recommendation = "Accept")
           /\ ((r.match_percentage = 75 /\ th = 70 /\ recommendation = "REJECT")
                 => r.recommendation = "Accept")

\* C1 witness: a record accepted below the threshold on the evaluator's word.
C1_Witness ==
    /\ ReturnedRecord
    /\ result[1].match_percentage = 65
    /\ form.match_threshold = 70
    /\ recommendation = "ACCEPT"
    /\ result[1].recommendation = "Accept"

\* C2: whenever the extraction stage or the model call fails,
\* process_application returns a failure result with success = false, and
\* no email send is attempted.
C2_FailureResultReturned ==
    (pc = "idle" /\ failed_stage \in {"Extracting", "Evaluating"}) =>
        /\ outcome = "returned"
        /\ result # << >>
        /\ result[1].success = FALSE
        /\ ~Occurs("send_message", smtp_log)

\* C3: a failure of the mail transport at any step never raises out of
\* process_application; the returned record has success = true,
\* email_sent = false, a non-empty email_message, and still carries
\* match_percentage, recommendation and analysis.
C3_MailFailureRecorded ==
    /\ failed_stage # "Notifying"
    /\ (smtp_pc = "failed" => pc \in {"Returning", "Handling"})
    /\ (Returned /\ smtp_pc = "failed") =>
          LET r == result[1] IN
          /\ r.success = TRUE
          /\ r.email_sent = FALSE
          /\ r.email_message # << >>
          /\ r.match_percentage = match_percentage
          /\ r.recommendation = (IF is_match THEN "Accept" ELSE "Reject")
          /\ r.analysis = response_text
          /\ r.analysis # << >>

\* C3 witness: the relay was unreachable and the record came back all the same.
C3_Witness ==
    /\ Returned
    /\ smtp_pc = "failed"
    /\ smtp_log = <<"connect">>
    /\ result[1].success
    /\ ~result[1].email_sent

\* C4: no temporary directory created by pdf_loader remains once it has
\* returned or failed.
C4_TempDirCleaned == temp_dirs = 0

\* C5: one submission goes through Extracting, Evaluating, Deciding,
\* Composing, Notifying, Done in that order, each stage entered at most
\* once, with at most one model call and at most one attempt to send.
C5_LinearStages ==
    /\ IsPrefix(stages, StageOrder)
    /\ llm_calls <= 1
    /\ Cardinality({p \in 1..Len(smtp_log) : smtp_log[p] = "send_message"}) <= 1
    /\ (pc \notin {"idle", "Handling"} =>
          stages # << >> /\
          stages[Len(stages)] = (CASE pc \in {"Parsing", "Checking"} -> "Evaluating"
                                   [] pc = "Returning" -> "Notifying"
                                   [] OTHER -> pc))

\* C5 witness: a submission went through all six stages.
C5_Witness ==
    /\ Returned
    /\ stages = StageOrder
    /\ llm_calls = 1
    /\ Occurs("send_message", smtp_log)

\* C8: application_data is append-only and holds one record per completed
\* submission, in submission order: a step changes it only by appending the
\* dictionary just returned with success = true, every such dictionary is
\* appended, and failures, exceptions and incomplete forms append nothing.
C8_AppendOnlySession ==
    /\ [](pc = "idle" => Len(application_data) = success_returns)
    /\ [](Len(application_data) <= submissions)
    /\ [][/\ (application_data' # application_data =>
                 /\ ReturnedRecord
                 /\ application_data' = Append(application_data, result[1]))
          /\ ((ReturnedRecord /\ pc' # pc) =>
                 application_data' = Append(application_data, result[1]))]_vars

\* C8 witness: two completed submissions left two records.
C8_Witness ==
    /\ pc = "idle"
    /\ submissions = 2
    /\ Len(application_data) = 2
    /\ outcome = "returned"

\* C9: the relay steps of a send_email run occur in the order connect, EHLO,
\* STARTTLS, EHLO, optional login, send: login is attempted only when both
\* the sender address and the password are configured, and a run that gets
\* as far as sending has logged in whenever they are; one message is
\* transmitted when send_email reports success, none when it failed before
\* the send step.
C9_SmtpDialogueOrder ==
    LET creds == EMAIL_SENDER # "" /\ EMAIL_PASSWORD # ""
        full  == IF creds
                 THEN <<"connect", "ehlo", "starttls", "ehlo", "login",
                        "send_message", "quit">>
                 ELSE <<"connect", "ehlo", "starttls", "ehlo",
                        "send_message", "quit">>
    IN /\ IsPrefix(smtp_log, full)
       /\ transmitted <= 1
       /\ (transmitted = 1 => Occurs("send_message", smtp_log))
       /\ ((pc \in {"Returning", "Handling"} /\ email_success) => transmitted = 1)
       /\ ((pc \in {"Returning", "Handling"} /\ ~email_success
               /\ ~Occurs("send_message", smtp_log)) => transmitted = 0)

\* C9 witness: an authenticated run that transmitted its message.
C9_Witness ==
    /\ pc = "Returning"
    /\ email_success
    /\ Occurs("login", smtp_log)
    /\ transmitted = 1

\* C10: an empty response is not decided on: process_application returns
\* success = false with 'Failed to analyze the CV.', nothing is composed or
\* sent, and the handler appends no record.
C10_EmptyResponseFails ==
    /\ []((Returned /\ response_text = << >>) =>
            /\ result = <<[success |-> FALSE, message |-> "Failed to analyze the CV."]>>
            /\ ~Occurs("Deciding", stages)
            /\ email = NoEmail
            /\ smtp_log = << >>
            /\ transmitted = 0)
    /\ []((pc \in {"Deciding", "Composing", "Notifying", "Returning"})
            => response_text # << >>)
    /\ [][(Returned /\ response_text = << >>) =>
            application_data' = application_data]_vars

\* C10 witness: the model answered with nothing and the parser's defaults
\* (0, REJECT) were in hand when the failure came back.
C10_Witness ==
    /\ Returned
    /\ response_text = << >>
    /\ llm_calls = 1
    /\ match_percentage = 0
    /\ recommendation = "REJECT"
    /\ ~result[1].success

====
